---- MODULE Spec2Model ----
(***************************************************************************)
(* A model of google/fhir/views/views.py: the immutable View value, its    *)
(* composition operations select and where, its attribute resolution       *)
(* (__getattr__), the patient-id resolution, and the Views factory.        *)
(*                                                                         *)
(* Python strings are sequences of one-character strings, so that          *)
(* name.endswith('_') and name[:-1] are computed as the code computes      *)
(* them.  A Python dict is the sequence of its [key, value] items in       *)
(* insertion order; a tuple is a sequence.  immutabledict and tuple are    *)
(* values, so a View record holds its fields and constraints by value.     *)
(***************************************************************************)
EXTENDS Naturals, Sequences, FiniteSets

VARIABLES ctx, view, last

vars == <<ctx, view, last>>

(***************************************************************************)
(* Strings.                                                                *)
(***************************************************************************)
us == "_"
s_id == <<"i", "d">>
s_class == <<"c", "l", "a", "s", "s">>
s_subject == <<"s", "u", "b", "j", "e", "c", "t">>
s_performer == <<"p", "e", "r", "f", "o", "r", "m", "e", "r">>
s_patient == <<"p", "a", "t", "i", "e", "n", "t">>
s_active == <<"a", "c", "t", "i", "v", "e">>
s_deceased == <<"d", "e", "c", "e", "a", "s", "e", "d">>
s_name == <<"n", "a", "m", "e">>
s_idFor_patient == <<".", "i", "d", "F", "o", "r", "(", "'", "p", "a", "t", "i", "e", "n", "t", "'", ")">>

\* keyword.kwlist of the host language: what keyword.iskeyword tests against.
kwlist ==
  {
    <<"F", "a", "l", "s", "e">>, <<"N", "o", "n", "e">>, <<"T", "r", "u", "e">>,
    <<"a", "n", "d">>, <<"a", "s">>, <<"a", "s", "s", "e", "r", "t">>,
    <<"a", "s", "y", "n", "c">>, <<"a", "w", "a", "i", "t">>, <<"b", "r", "e", "a", "k">>,
    <<"c", "l", "a", "s", "s">>, <<"c", "o", "n", "t", "i", "n", "u", "e">>, <<"d", "e", "f">>,
    <<"d", "e", "l">>, <<"e", "l", "i", "f">>, <<"e", "l", "s", "e">>,
    <<"e", "x", "c", "e", "p", "t">>, <<"f", "i", "n", "a", "l", "l", "y">>, <<"f", "o", "r">>,
    <<"f", "r", "o", "m">>, <<"g", "l", "o", "b", "a", "l">>, <<"i", "f">>,
    <<"i", "m", "p", "o", "r", "t">>, <<"i", "n">>, <<"i", "s">>,
    <<"l", "a", "m", "b", "d", "a">>, <<"n", "o", "n", "l", "o", "c", "a", "l">>, <<"n", "o", "t">>,
    <<"o", "r">>, <<"p", "a", "s", "s">>, <<"r", "a", "i", "s", "e">>,
    <<"r", "e", "t", "u", "r", "n">>, <<"t", "r", "y">>, <<"w", "h", "i", "l", "e">>,
    <<"w", "i", "t", "h">>, <<"y", "i", "e", "l", "d">>
  }

iskeyword(s) == s \in kwlist

endswith(s, c) == Len(s) > 0 /\ s[Len(s)] = c

\* s[:-1]
but_last(s) == SubSeq(s, 1, Len(s) - 1)

(***************************************************************************)
(* Bounds of the exploration.                                              *)
(***************************************************************************)
\* most expressions passed to one where call
MaxArgs == 2
\* most constraints a View accumulates
MaxConstraints == 3
\* most patient-reference paths a structure definition enumerates
MaxPaths == 2

(***************************************************************************)
(* Expression builders (expressions.Builder): the textual rendering and    *)
(* the result type are all the View reads of them.                         *)
(***************************************************************************)
Builder(fhir_path, return_type) ==
  [fhir_path |-> fhir_path, return_type |-> return_type]

\* Python's None, where an expression is expected
None == Builder(<<>>, "NoneType")

Boolean == "Boolean"

\* constraint._node.return_type()
return_type(b) == b.return_type

\* constraint._node.to_fhir_path()
to_fhir_path(b) == b.fhir_path

\* Expressions a caller builds and passes to select and where.
e_active == Builder(s_active, Boolean)
e_deceased == Builder(s_deceased, Boolean)
e_name == Builder(s_name, "HumanName")

Exprs == {e_active, e_deceased, e_name}

RECURSIVE SeqsUpTo(_, _)
SeqsUpTo(S, n) ==
  IF n = 0 THEN {<<>>}
  ELSE LET shorter == SeqsUpTo(S, n - 1)
       IN  shorter \cup {Append(s, x) : s \in {t \in shorter : Len(t) = n - 1}, x \in S}

Range(s) == {s[k] : k \in DOMAIN s}

\* Argument tuples of a where call.
WhereArgs == SeqsUpTo(Exprs, MaxArgs)

Item(key, value) == [key |-> key, value |-> value]

\* Mappings a caller passes to select.
FieldMaps ==
  {
    <<>>,
    <<Item(s_class, e_active)>>,
    <<Item(Append(s_class, us), e_name), Item(Append(s_id, us), e_active)>>
  }

\* Attribute names a caller requests of a View.
AttrNames ==
  {
    <<us>>, s_id, Append(s_id, us), s_class, Append(s_class, us),
    Append(Append(s_class, us), us)
  }

(***************************************************************************)
(* The schema context (context.FhirPathContext): structure definitions by  *)
(* URL.  A structure definition is its id, its elements (path and type)    *)
(* and the patient-reference element paths the schema utility enumerates.  *)
(***************************************************************************)
PatientUrl == "http://hl7.org/fhir/StructureDefinition/Patient"

URLs == {"Patient", "Encounter", PatientUrl}

RequestedURLs == URLs \cup {"Unknown"}

PathNames == {s_subject, s_performer, s_patient}

IsDistinct(s) == Cardinality(Range(s)) = Len(s)

PathSeqs == {s \in SeqsUpTo(PathNames, MaxPaths) : IsDistinct(s)}

Element(path, type) == [path |-> path, type |-> type]

BaseElements(id) ==
  IF id = "Patient"
  THEN {Element(s_id, "Id"), Element(s_active, Boolean), Element(s_name, "HumanName")}
  ELSE {Element(s_id, "Id"), Element(s_class, "Coding")}

StructDef(url, patients) ==
  LET id == IF url = PatientUrl THEN "Patient" ELSE url
  IN  [id |-> id,
       element |-> BaseElements(id) \cup {Element(p, "Reference") : p \in Range(patients)},
       patients |-> patients]

\* self._context.get_structure_definition(url): absent for an unknown URL
HasStructDef(url) == url \in DOMAIN ctx

get_structure_definition(url) == ctx[url]

\* _utils.get_patient_reference_element_paths(structdef)
get_patient_reference_element_paths(structdef) == structdef.patients

\* Builder attribute resolution against the schema: the child expression of
\* the element called key, None when the structure has no such element.
BuilderGetattr(builder, key) ==
  IF HasStructDef(return_type(builder))
     /\ \E el \in get_structure_definition(return_type(builder)).element : el.path = key
  THEN LET el == CHOOSE el \in get_structure_definition(return_type(builder)).element :
                   el.path = key
       IN  Builder(IF to_fhir_path(builder) = <<>> THEN key
                   ELSE to_fhir_path(builder) \o <<".">> \o key,
                   el.type)
  ELSE None

\* Builder.idFor(resource_type), here only with 'patient'
idFor_patient(builder) == Builder(to_fhir_path(builder) \o s_idFor_patient, "String")

(***************************************************************************)
(* View.                                                                   *)
(***************************************************************************)
\* View.__init__; the context is the one shared, read-only ctx.
View(structdef_url, root_builder, fields, constraints) ==
  [structdef_url |-> structdef_url, root_builder |-> root_builder,
   fields |-> fields, constraints |-> constraints]

\* no View: before the first view_of, and what a failed call returns
NoView == View("", None, <<>>, <<>>)

\* What a call hands back: a View, an expression, or an exception.
Returns(v) == [ret |-> v, value |-> None, raised |-> "", msg |-> <<>>]

Yields(e) == [ret |-> NoView, value |-> e, raised |-> "", msg |-> <<>>]

Raises(kind, msg) == [ret |-> NoView, value |-> None, raised |-> kind, msg |-> msg]

\* select building on the current fields instead of replacing them
select_merge(self, fields) ==
  Returns(View(self.structdef_url, self.root_builder, self.fields \o fields,
               self.constraints))

\* View.select
select(self, fields) ==
  Returns(View(self.structdef_url, self.root_builder, fields, self.constraints))

\* the first constraint, in argument order, that is no boolean predicate
FirstNonBoolean(constraints) ==
  IF \E k \in DOMAIN constraints : return_type(constraints[k]) # Boolean
  THEN CHOOSE k \in DOMAIN constraints :
         /\ return_type(constraints[k]) # Boolean
         /\ \A j \in 1..(k - 1) : return_type(constraints[j]) = Boolean
  ELSE 0

\* where validating only its first argument
where_first_only(self, constraints) ==
  IF constraints # <<>> /\ return_type(constraints[1]) # Boolean
  THEN Raises("ValueError", to_fhir_path(constraints[1]))
  ELSE Returns(View(self.structdef_url, self.root_builder, self.fields,
                    self.constraints \o constraints))

\* where without the result-type validation
where_unchecked(self, constraints) ==
  Returns(View(self.structdef_url, self.root_builder, self.fields,
               self.constraints \o constraints))

\* where putting the new constraints before the existing ones
where_prepend(self, constraints) ==
  LET k == FirstNonBoolean(constraints)
  IN  IF k # 0
      THEN Raises("ValueError", to_fhir_path(constraints[k]))
      ELSE Returns(View(self.structdef_url, self.root_builder, self.fields,
                        constraints \o self.constraints))

\* View.where
where(self, constraints) ==
  LET k == FirstNonBoolean(constraints)
  IN  IF k # 0
      THEN Raises("ValueError", to_fhir_path(constraints[k]))
      ELSE Returns(View(self.structdef_url, self.root_builder, self.fields,
                        self.constraints \o constraints))

\* dict.get(key): the value of the item with that key, else None
DictGet(d, key) ==
  IF \E k \in DOMAIN d : d[k].key = key
  THEN d[CHOOSE k \in DOMAIN d : d[k].key = key].value
  ELSE None

\* a lookup key that drops a trailing '_' from any name
lookup_strip_any(name) ==
  IF endswith(name, us) THEN but_last(name) ELSE name

\* the lookup key of View.__getattr__
lookup_key(name) ==
  IF endswith(name, us) /\ iskeyword(but_last(name)) THEN but_last(name) ELSE name

\* attribute resolution that falls back to the schema for a name the
\* selected fields do not declare
getattr_fallback(self, name) ==
  LET lookup == lookup_key(name)
      selected == DictGet(self.fields, lookup)
      expression == IF selected # None THEN selected
                    ELSE BuilderGetattr(self.root_builder, lookup)
  IN  IF expression = None
      THEN Raises("AttributeError", name)
      ELSE Yields(expression)

\* View.__getattr__
getattr(self, name) ==
  LET lookup == lookup_key(name)
      expression == IF self.fields # <<>>
                    THEN DictGet(self.fields, lookup)
                    ELSE BuilderGetattr(self.root_builder, lookup)
  IN  IF expression = None
      THEN Raises("AttributeError", name)
      ELSE Yields(expression)

\* patient-id resolution without the 'subject' preference
get_patient_id_first(self) ==
  LET structdef == get_structure_definition(self.structdef_url)
      patients == get_patient_reference_element_paths(structdef)
  IN  IF structdef.id = "Patient"
      THEN Yields(BuilderGetattr(self.root_builder, s_id))
      ELSE IF patients = <<>>
           THEN Yields(None)
           ELSE Yields(idFor_patient(BuilderGetattr(self.root_builder, patients[1])))

\* patient-id resolution without the test for an empty enumeration
get_patient_id_unchecked(self) ==
  LET structdef == get_structure_definition(self.structdef_url)
      patients == get_patient_reference_element_paths(structdef)
  IN  IF structdef.id = "Patient"
      THEN Yields(BuilderGetattr(self.root_builder, s_id))
      ELSE IF s_subject \in Range(patients)
           THEN Yields(idFor_patient(BuilderGetattr(self.root_builder, s_subject)))
           ELSE IF patients = <<>>
                THEN Raises("IndexError", <<>>)
                ELSE Yields(idFor_patient(BuilderGetattr(self.root_builder, patients[1])))

\* patient-id resolution testing the View's URL instead of the structure
\* definition's id
get_patient_id_by_url(self) ==
  LET structdef == get_structure_definition(self.structdef_url)
      patients == get_patient_reference_element_paths(structdef)
      patient_ref == IF s_subject \in Range(patients) THEN s_subject ELSE patients[1]
  IN  IF self.structdef_url = "Patient"
      THEN Yields(BuilderGetattr(self.root_builder, s_id))
      ELSE IF patients = <<>>
           THEN Yields(None)
           ELSE Yields(idFor_patient(BuilderGetattr(self.root_builder, patient_ref)))

\* View.get_patient_id_expression
get_patient_id_expression(self) ==
  LET structdef == get_structure_definition(self.structdef_url)
      patients == get_patient_reference_element_paths(structdef)
      patient_ref == IF s_subject \in Range(patients) THEN s_subject ELSE patients[1]
  IN  IF structdef.id = "Patient"
      THEN Yields(BuilderGetattr(self.root_builder, s_id))
      ELSE IF patients = <<>>
           THEN Yields(None)
           ELSE Yields(idFor_patient(BuilderGetattr(self.root_builder, patient_ref)))

(***************************************************************************)
(* Views (the factory).                                                    *)
(***************************************************************************)
\* Views.expression_for
expression_for(structdef_url) == Builder(<<>>, structdef_url)

\* Views.view_of
view_of(structdef_url) ==
  IF HasStructDef(structdef_url)
  THEN Returns(View(structdef_url, expression_for(structdef_url), <<>>, <<>>))
  ELSE Raises("UnresolvableResourceType", <<>>)

(***************************************************************************)
(* The state: ctx is the schema context the factory was built with; view   *)
(* is the View object the caller holds (the receiver of the next call);    *)
(* last is the last call made and what it handed back.                     *)
(***************************************************************************)
Call(op, url, name, fields, args, result) ==
  [op |-> op, url |-> url, name |-> name, fields |-> fields, args |-> args,
   ret |-> result.ret, value |-> result.value, raised |-> result.raised,
   msg |-> result.msg]

NoCall == Call("none", "", <<>>, <<>>, <<>>, Returns(NoView))

\* The factory is built over a context whose structure definitions
\* enumerate some sequence of patient-reference paths; no call is made yet.
Init ==
  /\ \E patients \in PathSeqs : ctx = [url \in URLs |-> StructDef(url, patients)]
  /\ view = NoView
  /\ last = NoCall

\* views.view_of(url)
ViewOf(url) ==
  /\ last' = Call("view_of", url, <<>>, <<>>, <<>>, view_of(url))
  /\ UNCHANGED <<ctx, view>>

\* select storing the mapping in the receiver and returning the receiver
SelectInPlace(fields) ==
  /\ view # NoView
  /\ view' = select(view, fields).ret
  /\ last' = Call("select", "", <<>>, fields, <<>>, select(view, fields))
  /\ UNCHANGED ctx

\* view.select(fields)
Select(fields) ==
  /\ view # NoView
  /\ last' = Call("select", "", <<>>, fields, <<>>, select(view, fields))
  /\ UNCHANGED <<ctx, view>>

\* view.where(*constraints)
Where(constraints) ==
  /\ view # NoView
  /\ Len(view.constraints) + Len(constraints) <= MaxConstraints
  /\ last' = Call("where", "", <<>>, <<>>, constraints, where(view, constraints))
  /\ UNCHANGED <<ctx, view>>

\* view.<name>
GetAttr(name) ==
  /\ view # NoView
  /\ last' = Call("getattr", "", name, <<>>, <<>>, getattr(view, name))
  /\ UNCHANGED <<ctx, view>>

\* view.get_patient_id_expression()
GetPatientIdExpression ==
  /\ view # NoView
  /\ last' = Call("get_patient_id_expression", "", <<>>, <<>>, <<>>,
                  get_patient_id_expression(view))
  /\ UNCHANGED <<ctx, view>>

\* The caller goes on with the View the last call returned, as in
\* pat.select(...).where(...).
Chain ==
  /\ last.ret # NoView
  /\ view' = last.ret
  /\ last' = NoCall
  /\ UNCHANGED ctx

Next ==
  \/ \E url \in RequestedURLs : ViewOf(url)
  \/ \E fields \in FieldMaps : Select(fields)
  \/ \E constraints \in WhereArgs : Where(constraints)
  \/ \E name \in AttrNames : GetAttr(name)
  \/ GetPatientIdExpression
  \/ Chain

Spec == Init /\ [][Next]_vars

(***************************************************************************)
(* Properties.                                                             *)
(***************************************************************************)
gpid == "get_patient_id_expression"

HasNonBoolean(cs) == \E k \in DOMAIN cs : return_type(cs[k]) # Boolean

AllBoolean(cs) == \A k \in DOMAIN cs : return_type(cs[k]) = Boolean

Declared(d, key) == \E k \in DOMAIN d : d[k].key = key

\* name is a reserved keyword followed by one '_'
EscapedKeyword(name) == \E kw \in kwlist : name = Append(kw, us)

\* the lookup key the keyword-escaping convention gives a requested name
KeyOf(name) == IF EscapedKeyword(name) THEN but_last(name) ELSE name

ViewStructDef == get_structure_definition(view.structdef_url)

\* C1: a select or where call, whether it returns a View or fails, leaves
\* the receiver's fields and constraints (and the rest of it) as they were.
C1_ReceiverUnchanged ==
  [][last'.op \in {"select", "where"} =>
       /\ view'.fields = view.fields
       /\ view'.constraints = view.constraints
       /\ view' = view]_vars

C1_Witness ==
  /\ last.op = "select"
  /\ view.fields # <<>>
  /\ view.constraints # <<>>
  /\ last.ret.fields # view.fields

\* C2: a where call with at least one non-boolean argument, at any
\* position and among any number of boolean ones, raises ValueError,
\* returns no View, and the error names the rendering of a non-boolean
\* argument.
C2_NonBooleanRejected ==
  (last.op = "where" /\ HasNonBoolean(last.args)) =>
    /\ last.raised = "ValueError"
    /\ last.ret = NoView
    /\ \E k \in DOMAIN last.args :
         /\ return_type(last.args[k]) # Boolean
         /\ last.msg = to_fhir_path(last.args[k])

C2_Witness ==
  /\ last.op = "where"
  /\ Len(last.args) = 2
  /\ return_type(last.args[1]) = Boolean
  /\ return_type(last.args[2]) # Boolean
  /\ view.constraints # <<>>
  /\ last.raised = "ValueError"

\* C3: every constraint of every View reached from view_of by select and
\* where calls is boolean, and select carries the constraints over as
\* they are.
C3_ConstraintsBoolean ==
  /\ AllBoolean(view.constraints)
  /\ AllBoolean(last.ret.constraints)
  /\ last.op = "select" => last.ret.constraints = view.constraints

C3_Witness ==
  /\ last.op = "where"
  /\ last.ret # NoView
  /\ Len(last.ret.constraints) > Len(view.constraints)
  /\ view.constraints # <<>>
  /\ view.fields # <<>>

\* C4: where appends its arguments, in argument order, after the
\* existing constraints, keeping duplicates; v.where(a).where(b) and
\* v.where(a, b) both have the constraints of v followed by a then b.
C4_AppendInOrder ==
  /\ (last.op = "where" /\ last.raised = "") =>
       last.ret.constraints = view.constraints \o last.args
  /\ view # NoView =>
       \A a, b \in {e \in Exprs : return_type(e) = Boolean} :
         /\ where(where(view, <<a>>).ret, <<b>>).ret.constraints
              = view.constraints \o <<a, b>>
         /\ where(view, <<a, b>>).ret.constraints = view.constraints \o <<a, b>>

C4_Witness ==
  /\ last.op = "where"
  /\ last.ret # NoView
  /\ Len(last.args) = 2
  /\ last.args[1] # last.args[2]
  /\ view.constraints # <<>>
  /\ last.args[2] \in Range(view.constraints)
  /\ last.ret.constraints = view.constraints \o last.args

\* C5 as stated: with a non-empty selection every declared name resolves
\* to its expression and every undeclared name fails with AttributeError;
\* with an empty selection the lookup is the root expression's.
C5_AsStated ==
  last.op = "getattr" =>
    IF view.fields # <<>>
    THEN IF Declared(view.fields, last.name)
         THEN last.raised = "" /\ last.value = DictGet(view.fields, last.name)
         ELSE last.raised = "AttributeError"
    ELSE last.value = BuilderGetattr(view.root_builder, KeyOf(last.name))

\* C5, amended: __getattr__ is two-tier and exclusive on the lookup key of
\* the name it is handed (the name with the keyword-escaping '_' removed):
\* with a non-empty selection the name resolves to the expression declared
\* under its key, and fails with AttributeError when the key is not
\* declared, even when it is a field of the schema; with an empty selection
\* the lookup of the key is the root expression's.
C5_ScopedResolution ==
  last.op = "getattr" =>
    IF view.fields # <<>>
    THEN IF Declared(view.fields, KeyOf(last.name))
         THEN last.raised = "" /\ last.value = DictGet(view.fields, KeyOf(last.name))
         ELSE last.raised = "AttributeError" /\ last.value = None
    ELSE /\ last.value = BuilderGetattr(view.root_builder, KeyOf(last.name))
         /\ last.raised = "" <=> last.value # None

C5_Witness ==
  /\ last.op = "getattr"
  /\ view.fields # <<>>
  /\ ~Declared(view.fields, KeyOf(last.name))
  /\ BuilderGetattr(view.root_builder, KeyOf(last.name)) # None
  /\ last.raised = "AttributeError"

\* C6: for a non-Patient type with a non-empty enumeration of
\* patient-reference paths the result is built from 'subject' when it is a
\* candidate at any position, and from the first candidate otherwise.
C6_SubjectPreferred ==
  (/\ last.op = gpid
   /\ ViewStructDef.id # "Patient"
   /\ ViewStructDef.patients # <<>>) =>
    /\ last.raised = ""
    /\ to_fhir_path(last.value)
         = (IF \E k \in DOMAIN ViewStructDef.patients :
                 ViewStructDef.patients[k] = s_subject
            THEN s_subject
            ELSE ViewStructDef.patients[1]) \o s_idFor_patient

C6_Witness ==
  /\ last.op = gpid
  /\ ViewStructDef.id # "Patient"
  /\ ViewStructDef.patients = <<s_performer, s_subject>>
  /\ to_fhir_path(last.value) = s_subject \o s_idFor_patient

\* C7 as stated: with zero patient-reference paths the result is None and
\* nothing is raised; and the result is None only for a non-Patient type
\* with an empty enumeration.
C7_AsStated ==
  last.op = gpid =>
    /\ ViewStructDef.patients = <<>> => (last.value = None /\ last.raised = "")
    /\ (last.value = None /\ last.raised = "") =>
         (ViewStructDef.id # "Patient" /\ ViewStructDef.patients = <<>>)

\* C7, amended: for a resource type other than Patient with zero
\* patient-reference paths the result is None and nothing is raised; and
\* the result is None only for a non-Patient type with an empty
\* enumeration.
C7_AbsentNotRaised ==
  last.op = gpid =>
    /\ (ViewStructDef.id # "Patient" /\ ViewStructDef.patients = <<>>) =>
         (last.value = None /\ last.raised = "")
    /\ last.value = None =>
         (ViewStructDef.id # "Patient" /\ ViewStructDef.patients = <<>>)

C7_Witness ==
  /\ last.op = gpid
  /\ ViewStructDef.id # "Patient"
  /\ ViewStructDef.patients = <<>>
  /\ last.value = None
  /\ last.raised = ""

\* C8: for a View of the Patient type the result is the root expression's
\* 'id' field, whatever paths the Patient schema enumerates and whatever
\* fields and constraints the View has.
C8_PatientIsOwnId ==
  (last.op = gpid /\ ViewStructDef.id = "Patient") =>
    /\ last.raised = ""
    /\ to_fhir_path(last.value) = s_id
    /\ last.value = BuilderGetattr(view.root_builder, s_id)

C8_Witness ==
  /\ last.op = gpid
  /\ ViewStructDef.id = "Patient"
  /\ s_subject \in Range(ViewStructDef.patients)
  /\ view.fields # <<>>
  /\ view.constraints # <<>>
  /\ to_fhir_path(last.value) = s_id

C10_KeywordEscape ==
  last.op = "getattr" =>
    LET key == KeyOf(last.name)
        found == IF view.fields # <<>>
                 THEN DictGet(view.fields, key)
                 ELSE BuilderGetattr(view.root_builder, key)
    IN  /\ EscapedKeyword(last.name) =>
             /\ Len(key) = Len(last.name) - 1
             /\ last.value = getattr(view, key).value
        /\ ~EscapedKeyword(last.name) => key = last.name
        /\ last.value = found
        /\ last.raised # "" => (last.raised = "AttributeError" /\ last.msg = last.name)

C10_Witness ==
  /\ last.op = "getattr"
  /\ last.name = Append(s_class, us)
  /\ view.fields = <<>>
  /\ last.raised = ""
  /\ to_fhir_path(last.value) = s_class

====
